---- MODULE Spec2Model ----
(***************************************************************************)
(* Model of the docker_metrics source (src/sources/docker_metrics.rs):     *)
(* the Coordinator (DockerMetricsSource::run), the per-container tracker   *)
(* (ContainerState), the stream builder (EventStreamBuilder) and the       *)
(* polling tasks it spawns.                                                *)
(*                                                                         *)
(* Strings are sequences of small naturals (0 stands for '/').             *)
(* Option<T> is a sequence of length 0 (None) or 1 (Some).                 *)
(* The runtime's inspect response is taken to be well formed (name, config *)
(* and image present).                                                     *)
(***************************************************************************)
EXTENDS Integers, Sequences, FiniteSets, Bags, TLC

VARIABLES
    config,      \* DockerMetricsConfig + hostname snapshot (immutable)
    containers,  \* DockerMetricsSource.containers : HashMap<ContainerId, ContainerState>
    tasks,       \* bag of spawned polling tasks that have not yet finished
    chan,        \* main_send / main_recv : unbounded mpsc channel
    pc,          \* position of the Coordinator future
    eventsOpen,  \* the lifecycle event stream has neither ended nor failed
    shutdown,    \* the ShutdownSignal has resolved
    sinkClosed,  \* the output sink (SourceSender) is closed
    lastEv,      \* history: per id, class of the last lifecycle event processed;
                 \* "dropped" from the processing of a Transient failure that
                 \* dropped the stopped id until its next start/unpause event
    call         \* history: the last ContainerState method call and its result
                 \* (recorded by the tracker specification only)

vars == <<config, containers, tasks, chan, pc, eventsOpen, shutdown, sinkClosed,
          lastEv, call>>

----------------------------------------------------------------------------
(* Bounds *)

MaxGen == 2          \* start/unpause events are not fed beyond this generation

----------------------------------------------------------------------------
(* Values *)

None == <<>>
Some(x) == <<x>>

MIN_HOSTNAME_LENGTH == 6

\* DockerMetricsConfig::default().retry_backoff_secs
retry_backoff_secs == 2

Slash == 0

idA == <<1, 1, 1, 1, 1, 1, 2>>
idB == <<2, 1, 1, 1, 1, 1, 2>>
Ids == {idA, idB}

\* the name the runtime knows a container by (without the leading '/')
ContainerName(id) == IF id = idA THEN <<3>> ELSE <<3, 2>>
ContainerImage(id) == IF id = idA THEN <<4>> ELSE <<5>>

Configs ==
    { [hostname |-> None, include |-> None, exclude |-> None],
      [hostname |-> Some(<<1>>), include |-> Some(<< <<3>> >>), exclude |-> Some(<< <<3, 2>> >>)],
      [hostname |-> Some(<<1, 1, 1, 1, 1, 1>>), include |-> None, exclude |-> None] }

Transient == "Transient"
Permanent == "Permanent"

\* http::StatusCode::NOT_IMPLEMENTED
NOT_IMPLEMENTED == 501

\* the errors the stats feed can yield (DockerError): server responses with a
\* status code, and one error that is no server response
FeedErrors ==
    {[kind |-> "DockerResponseServerError", status_code |-> c] :
        c \in {NOT_IMPLEMENTED, 500, 404}}
    \cup {[kind |-> "IOError", status_code |-> 0]}

----------------------------------------------------------------------------
(* String helpers *)

starts_with(s, p) == Len(p) <= Len(s) /\ SubSeq(s, 1, Len(p)) = p

Range(s) == {s[i] : i \in 1..Len(s)}

RECURSIVE trim_start_matches(_, _)
trim_start_matches(s, c) ==
    IF s # <<>> /\ Head(s) = c THEN trim_start_matches(Tail(s), c) ELSE s

\* handle_running_containers: strip one leading '/' from a listed name
strip_slash(s) == IF starts_with(s, <<Slash>>) THEN SubSeq(s, 2, Len(s)) ELSE s

----------------------------------------------------------------------------
(* Filter policy *)

name_or_id_matches(id, names, items) ==
    \/ \E flag \in Range(items) : starts_with(id, flag)
    \/ \E name \in Range(names) : \E item \in Range(items) : starts_with(name, item)

\* the include list winning over the exclude list
included_include_wins(cfg, id, names) ==
    IF cfg.include # None /\ name_or_id_matches(id, names, cfg.include[1]) THEN TRUE
    ELSE /\ cfg.include = None
         /\ ~(IF cfg.exclude = None THEN FALSE
              ELSE name_or_id_matches(id, names, cfg.exclude[1]))

container_name_or_id_included(cfg, id, names) ==
    /\ (IF cfg.include = None THEN TRUE ELSE name_or_id_matches(id, names, cfg.include[1]))
    /\ ~(IF cfg.exclude = None THEN FALSE ELSE name_or_id_matches(id, names, cfg.exclude[1]))

\* exclude_self without the minimum hostname length
exclude_self_nolen(cfg, id) ==
    IF cfg.hostname = None THEN FALSE ELSE starts_with(id, cfg.hostname[1])

exclude_self(cfg, id) ==
    IF cfg.hostname = None THEN FALSE
    ELSE starts_with(id, cfg.hostname[1]) /\ Len(cfg.hostname[1]) >= MIN_HOSTNAME_LENGTH

----------------------------------------------------------------------------
(* ContainerMetricInfo / ContainerMetadata *)

\* the inspect response of a container (ContainerInspectResponse)
InspectResponse(id) ==
    [name |-> <<Slash>> \o ContainerName(id), image |-> ContainerImage(id)]

from_details(details) ==
    [name |-> trim_start_matches(details.name, Slash), image |-> details.image]

\* a new info that starts at generation 1
ContainerMetricInfo_new_gen1(id, metadata) ==
    [id |-> id,
     name |-> metadata.name,
     generation |-> 1,
     tags |-> [container_id |-> id, container_name |-> metadata.name,
               image_name |-> metadata.image]]

ContainerMetricInfo_new(id, metadata) ==
    [id |-> id,
     name |-> metadata.name,
     generation |-> 0,
     tags |-> [container_id |-> id, container_name |-> metadata.name,
               image_name |-> metadata.image]]

----------------------------------------------------------------------------
(* ContainerState *)

new_running == [info |-> None, running |-> TRUE, generation |-> 0]

\* running() without the generation bump
running_nobump(s) == [s EXCEPT !.running = TRUE]

\* running() bumping the generation only when the flag was false
running_on_rise(s) ==
    [s EXCEPT !.running = TRUE,
              !.generation = IF s.running THEN s.generation ELSE s.generation + 1]

running(s) == [s EXCEPT !.running = TRUE, !.generation = s.generation + 1]

\* stopped() that also forgets the pending info
stopped_forget(s) == [s EXCEPT !.running = FALSE, !.info = None]

stopped(s) == [s EXCEPT !.running = FALSE]

is_running(s) == s.running

\* return_info comparing the generations with <=
return_info_le(s, info) ==
    [state |-> [s EXCEPT !.info = Some(info)],
     restart |-> (s.running \/ info.generation <= s.generation),
     assert_ok |-> (s.info = None)]

\* return_info deciding on the generations alone
return_info_gen_only(s, info) ==
    [state |-> [s EXCEPT !.info = Some(info)],
     restart |-> (info.generation < s.generation),
     assert_ok |-> (s.info = None)]

\* return_info deciding on the running flag alone
return_info_running_only(s, info) ==
    [state |-> [s EXCEPT !.info = Some(info)],
     restart |-> s.running,
     assert_ok |-> (s.info = None)]

\* state: the tracker afterwards; restart: the returned bool;
\* assert_ok: the debug_assert!(self.info.is_none()) holds
return_info(s, info) ==
    [state |-> [s EXCEPT !.info = Some(info)],
     restart |-> (s.running \/ info.generation < s.generation),
     assert_ok |-> (s.info = None)]

\* take_info cloning the info instead of taking it
take_info_keep(s) ==
    [state |-> s,
     info |-> IF s.info = None THEN None
              ELSE Some([s.info[1] EXCEPT !.generation = s.generation])]

\* take_info without the generation stamp
take_info_nostamp(s) ==
    [state |-> [s EXCEPT !.info = None], info |-> s.info]

\* state: the tracker afterwards; info: the returned Option<ContainerMetricInfo>
take_info(s) ==
    [state |-> [s EXCEPT !.info = None],
     info |-> IF s.info = None THEN None
              ELSE Some([s.info[1] EXCEPT !.generation = s.generation])]

----------------------------------------------------------------------------
(* Tasks and reports *)

\* a task spawned by start: first the optional backoff, then inspect
StartTask(id, backoff) ==
    [id |-> id, pc |-> IF backoff = None THEN "inspect" ELSE "backoff",
     sleep |-> backoff, info |-> None, error |-> None]

\* a task running run_event_stream(info)
StreamTask(info) ==
    [id |-> info.id, pc |-> "stream", sleep |-> None, info |-> Some(info), error |-> None]

OkReport(info) == [kind |-> "Ok", id |-> info.id, info |-> Some(info), persistence |-> None]
ErrReport(id, p) == [kind |-> "Err", id |-> id, info |-> None, persistence |-> Some(p)]

\* number of live tasks of id
RECURSIVE SumCopies(_, _)
SumCopies(B, S) ==
    IF S = {} THEN 0
    ELSE LET t == CHOOSE x \in S : TRUE IN B[t] + SumCopies(B, S \ {t})

TaskCount(id) == SumCopies(tasks, {t \in BagToSet(tasks) : t.id = id})

ReportCount(id) == Cardinality({i \in 1..Len(chan) : chan[i].id = id})

RECURSIVE SeqToBag(_)
SeqToBag(s) == IF s = <<>> THEN EmptyBag ELSE SetToBag({Head(s)}) (+) SeqToBag(Tail(s))

----------------------------------------------------------------------------
(* EventStreamBuilder *)

\* start: spawns the task, returns ContainerState::new_running()
start(id, backoff) == [spawned |-> <<StartTask(id, backoff)>>, state |-> new_running]

\* restart that leaves the info with the tracker
restart_keep(s) ==
    LET t == take_info_keep(s)
    IN  [state |-> t.state,
         spawned |-> IF t.info # None THEN <<StreamTask(t.info[1])>> ELSE <<>>]

\* restart: spawns run_event_stream(info) if take_info() gives one
restart(s) ==
    LET t == take_info(s)
    IN  [state |-> t.state,
         spawned |-> IF t.info # None THEN <<StreamTask(t.info[1])>> ELSE <<>>]

----------------------------------------------------------------------------
(* HashMap *)

insert(cs, id, s) == [i \in DOMAIN cs \cup {id} |-> IF i = id THEN s ELSE cs[i]]

\* a removal that empties the table
remove_all(cs, id) == << >>

remove(cs, id) == [i \in DOMAIN cs \ {id} |-> cs[i]]

----------------------------------------------------------------------------
(* DockerMetricsSource::run, the body of each arm as a function of the table.
   Result: the table afterwards, the tasks spawned (in order), the panic
   raised ("" for none; "expect" for a failed expect, "debug_assert" for
   the assertion of return_info), and for Ok(info) the value return_info
   returned and the tracker as return_info left it. *)

Outcome(cs, spawned, panic, ret, mid) ==
    [containers |-> cs, spawned |-> spawned, panic |-> panic, ret |-> ret, mid |-> mid]

\* Some(Ok(info))
OnOk(cs, info) ==
    IF info.id \notin DOMAIN cs
    THEN Outcome(cs, <<>>, "expect", None, None)
    ELSE LET r == return_info(cs[info.id], info)
         IN  IF ~r.assert_ok
             THEN Outcome(cs, <<>>, "debug_assert", None, None)
             ELSE LET rs == IF r.restart THEN restart(r.state)
                            ELSE [state |-> r.state, spawned |-> <<>>]
                  IN  Outcome(insert(cs, info.id, rs.state), rs.spawned, "",
                              Some(r.restart), Some(r.state))

\* the Err arm starting the retry without inserting the new tracker
OnErr_noinsert(cs, id, persistence) ==
    IF id \notin DOMAIN cs
    THEN Outcome(cs, <<>>, "expect", None, None)
    ELSE IF persistence = Transient /\ is_running(cs[id])
         THEN Outcome(remove(cs, id), start(id, Some(retry_backoff_secs)).spawned,
                      "", None, None)
         ELSE Outcome(remove(cs, id), <<>>, "", None, None)

\* the Err arm retrying at once, without the backoff
OnErr_nobackoff(cs, id, persistence) ==
    IF id \notin DOMAIN cs
    THEN Outcome(cs, <<>>, "expect", None, None)
    ELSE IF persistence = Transient /\ is_running(cs[id])
         THEN LET st == start(id, None)
              IN  Outcome(insert(remove(cs, id), id, st.state), st.spawned, "", None, None)
         ELSE Outcome(remove(cs, id), <<>>, "", None, None)

\* the Err arm retrying a running container whatever the persistence
OnErr_retry_any(cs, id, persistence) ==
    IF id \notin DOMAIN cs
    THEN Outcome(cs, <<>>, "expect", None, None)
    ELSE IF is_running(cs[id])
         THEN LET st == start(id, Some(retry_backoff_secs))
              IN  Outcome(insert(remove(cs, id), id, st.state), st.spawned, "", None, None)
         ELSE Outcome(remove(cs, id), <<>>, "", None, None)

\* the Err arm retrying after a Transient failure whether or not the
\* container is running
OnErr_retry_stopped(cs, id, persistence) ==
    IF id \notin DOMAIN cs
    THEN Outcome(cs, <<>>, "expect", None, None)
    ELSE IF persistence = Transient
         THEN LET st == start(id, Some(retry_backoff_secs))
              IN  Outcome(insert(remove(cs, id), id, st.state), st.spawned, "", None, None)
         ELSE Outcome(remove(cs, id), <<>>, "", None, None)

\* the Err arm returning from run on a Permanent failure
OnErr_permanent_returns(cs, id, persistence) ==
    IF id \notin DOMAIN cs
    THEN Outcome(cs, <<>>, "expect", None, None)
    ELSE IF persistence = Transient /\ is_running(cs[id])
         THEN LET st == start(id, Some(retry_backoff_secs))
              IN  Outcome(insert(remove(cs, id), id, st.state), st.spawned, "", None, None)
         ELSE Outcome(remove(cs, id), <<>>,
                      IF persistence = Permanent THEN "done" ELSE "", None, None)

\* Some(Err((id, persistence)))
OnErr(cs, id, persistence) ==
    IF id \notin DOMAIN cs
    THEN Outcome(cs, <<>>, "expect", None, None)
    ELSE LET state == cs[id]
             removed == remove(cs, id)
         IN  IF persistence = Transient /\ is_running(state)
             THEN LET st == start(id, Some(retry_backoff_secs))
                  IN  Outcome(insert(removed, id, st.state), st.spawned, "", None, None)
             ELSE Outcome(removed, <<>>, "", None, None)

OnReport(cs, rep) ==
    IF rep.kind = "Ok" THEN OnOk(cs, rep.info[1]) ELSE OnErr(cs, rep.id, rep.persistence[1])

\* Some(Ok(event)) with action, actor, id and attributes present;
\* ev.name is attributes.get("name")
\* start/unpause of an untracked id tracked without consulting the filters
OnEvent_unfiltered(cfg, cs, ev) ==
    IF ev.action \in {"die", "pause"}
    THEN IF ev.id \in DOMAIN cs
         THEN Outcome(insert(cs, ev.id, stopped(cs[ev.id])), <<>>, "", None, None)
         ELSE Outcome(cs, <<>>, "", None, None)
    ELSE IF ev.action \in {"start", "unpause"}
    THEN IF ev.id \in DOMAIN cs
         THEN LET rs == restart(running(cs[ev.id]))
              IN  Outcome(insert(cs, ev.id, rs.state), rs.spawned, "", None, None)
         ELSE LET st == start(ev.id, None)
              IN  Outcome(insert(cs, ev.id, st.state), st.spawned, "", None, None)
    ELSE Outcome(cs, <<>>, "", None, None)

\* start/unpause of a tracked id honoured only if the id passes the filters
OnEvent_refilter(cfg, cs, ev) ==
    IF ev.action \in {"die", "pause"}
    THEN IF ev.id \in DOMAIN cs
         THEN Outcome(insert(cs, ev.id, stopped(cs[ev.id])), <<>>, "", None, None)
         ELSE Outcome(cs, <<>>, "", None, None)
    ELSE IF ev.action \in {"start", "unpause"}
    THEN LET include_name == container_name_or_id_included(cfg, ev.id, ev.name)
             excl_self == exclude_self(cfg, ev.id)
         IN  IF include_name /\ ~excl_self
             THEN IF ev.id \in DOMAIN cs
                  THEN LET rs == restart(running(cs[ev.id]))
                       IN  Outcome(insert(cs, ev.id, rs.state), rs.spawned, "", None, None)
                  ELSE LET st == start(ev.id, None)
                       IN  Outcome(insert(cs, ev.id, st.state), st.spawned, "", None, None)
             ELSE Outcome(cs, <<>>, "", None, None)
    ELSE Outcome(cs, <<>>, "", None, None)

OnEvent(cfg, cs, ev) ==
    IF ev.action \in {"die", "pause"}
    THEN IF ev.id \in DOMAIN cs
         THEN Outcome(insert(cs, ev.id, stopped(cs[ev.id])), <<>>, "", None, None)
         ELSE Outcome(cs, <<>>, "", None, None)
    ELSE IF ev.action \in {"start", "unpause"}
    THEN IF ev.id \in DOMAIN cs
         THEN LET rs == restart(running(cs[ev.id]))
              IN  Outcome(insert(cs, ev.id, rs.state), rs.spawned, "", None, None)
         ELSE LET include_name == container_name_or_id_included(cfg, ev.id, ev.name)
                  excl_self == exclude_self(cfg, ev.id)
              IN  IF include_name /\ ~excl_self
                  THEN LET st == start(ev.id, None)
                       IN  Outcome(insert(cs, ev.id, st.state), st.spawned, "", None, None)
                  ELSE Outcome(cs, <<>>, "", None, None)
    ELSE Outcome(cs, <<>>, "", None, None)

\* A received event (EventMessage): action, actor, actor.id and
\* actor.attributes are Options; attributes maps "name" to a name or not
RawEvent(action, actor) == [action |-> action, actor |-> actor]
RawActor(id, attributes) == [id |-> id, attributes |-> attributes]

\* the unwraps put off until the value is needed: attributes only by the
\* untracked start/unpause branch
OnRawEvent_lazy(cfg, cs, raw) ==
    IF raw.action = None \/ raw.actor = None THEN Outcome(cs, <<>>, "unwrap", None, None)
    ELSE IF raw.actor[1].id = None THEN Outcome(cs, <<>>, "unwrap", None, None)
    ELSE IF /\ raw.actor[1].attributes = None
            /\ raw.action[1] \in {"start", "unpause"}
            /\ raw.actor[1].id[1] \notin DOMAIN cs
    THEN Outcome(cs, <<>>, "unwrap", None, None)
    ELSE OnEvent(cfg, cs, [action |-> raw.action[1], id |-> raw.actor[1].id[1],
                           name |-> IF raw.actor[1].attributes = None THEN None
                                    ELSE raw.actor[1].attributes[1].name])

\* Some(Ok(event)): the four unwraps, then the match on the action
OnRawEvent(cfg, cs, raw) ==
    IF raw.action = None THEN Outcome(cs, <<>>, "unwrap", None, None)
    ELSE IF raw.actor = None THEN Outcome(cs, <<>>, "unwrap", None, None)
    ELSE IF raw.actor[1].id = None THEN Outcome(cs, <<>>, "unwrap", None, None)
    ELSE IF raw.actor[1].attributes = None THEN Outcome(cs, <<>>, "unwrap", None, None)
    ELSE OnEvent(cfg, cs, [action |-> raw.action[1], id |-> raw.actor[1].id[1],
                           name |-> raw.actor[1].attributes[1].name])

----------------------------------------------------------------------------
(* Initial state: DockerMetricsSource::new *)

\* runs: the running() calls since the tracker's info was last stored;
\* ups: the running() calls in the life of the tracker; rises: those of them
\* that found the running flag false
NoCall == [op |-> "none", pre |-> None, arg |-> None, post |-> None, ret |-> None,
           runs |-> 0, ups |-> 0, rises |-> 0]

Init ==
    /\ config \in Configs
    /\ containers = << >>
    /\ tasks = EmptyBag
    /\ chan = << >>
    /\ pc = "discover"
    /\ shutdown = FALSE
    /\ sinkClosed = FALSE
    /\ lastEv = [id \in Ids |-> "none"]
    /\ call = NoCall
    /\ eventsOpen = TRUE

\* the Coordinator future exists and has not returned or panicked
CoordinatorAlive == pc \in {"discover", "run"}

\* senders of the completion channel: the Coordinator's own (in esb) and
\* one clone per live task
\* senders counted without the Coordinator's own
SenderCount_tasks_only == BagCardinality(tasks)

SenderCount == (IF CoordinatorAlive THEN 1 ELSE 0) + BagCardinality(tasks)

----------------------------------------------------------------------------
(* handle_running_containers *)

\* names as list_containers gives them: with a leading '/'
ListedNames(id) == << <<Slash>> \o ContainerName(id) >>

StripNames(names) == [i \in 1..Len(names) |-> strip_slash(names[i])]

\* the closure without the exclude_self test
DiscoverOne_noself(cfg, id) ==
    IF ~container_name_or_id_included(cfg, id, StripNames(ListedNames(id))) THEN None
    ELSE Some(start(id, None))

\* the closure of for_each applied to one listed container
DiscoverOne(cfg, id) ==
    IF exclude_self(cfg, id) THEN None
    ELSE IF ~container_name_or_id_included(cfg, id, StripNames(ListedNames(id))) THEN None
    ELSE Some(start(id, None))

\* handle_running_containers on the running containers `listed`: the table
\* it builds and the tasks it spawns (a bag: for_each visits the list once)
handle_running_containers(cfg, listed) ==
    LET kept == {id \in listed : DiscoverOne(cfg, id) # None}
    IN  [containers |-> [id \in kept |-> DiscoverOne(cfg, id)[1].state],
         spawned |-> SetToBag({DiscoverOne(cfg, id)[1].spawned[1] : id \in kept})]

\* list_containers succeeded with the running containers `listed`
Discover(listed) ==
    /\ pc = "discover"
    /\ LET out == handle_running_containers(config, listed)
       IN  /\ containers' = out.containers
           /\ tasks' = tasks (+) out.spawned
    /\ pc' = "run"
    /\ UNCHANGED <<config, chan, shutdown, sinkClosed, lastEv, call,
                 eventsOpen>>

\* list_containers failed: build logs the error and the future completes
\* a listing that fails after a first container was taken up
DiscoverFail_partial ==
    /\ pc = "discover"
    /\ pc' = "failed"
    /\ containers' = insert(containers, idA, start(idA, None).state)
    /\ tasks' = tasks (+) SeqToBag(start(idA, None).spawned)
    /\ UNCHANGED <<config, chan, shutdown, sinkClosed, lastEv, call, eventsOpen>>

DiscoverFail ==
    /\ pc = "discover"
    /\ pc' = "failed"
    /\ UNCHANGED <<config, containers, tasks, chan, shutdown, sinkClosed, lastEv, call,
                 eventsOpen>>

----------------------------------------------------------------------------
(* run: one iteration of the select loop *)

\* rep is a Transient failure of a tracked id whose tracker is not running:
\* the Err arm removes the tracker and starts nothing
DropsStopped(cs, rep) ==
    /\ rep.kind = "Err" /\ rep.persistence = Some(Transient)
    /\ rep.id \in DOMAIN cs
    /\ ~is_running(cs[rep.id])

\* main_recv.recv() is ready: a report, or None once every sender is gone
RecvReport ==
    /\ pc = "run"
    /\ ~(chan = << >> /\ SenderCount > 0)
    /\ IF chan = << >>
       THEN /\ pc' = "done"
            /\ UNCHANGED <<containers, tasks, chan, lastEv, eventsOpen>>
       ELSE LET rep == Head(chan)
                out == OnReport(containers, rep)
            IN  /\ containers' = out.containers
                /\ tasks' = tasks (+) SeqToBag(out.spawned)
                /\ chan' = Tail(chan)
                /\ pc' = IF out.panic = "" THEN pc ELSE out.panic
                /\ lastEv' = IF DropsStopped(containers, rep)
                             THEN [lastEv EXCEPT ![rep.id] = "dropped"]
                             ELSE lastEv
    /\ UNCHANGED <<config, shutdown, sinkClosed, call,
                 eventsOpen>>

EventActions == {"start", "unpause", "die", "pause", "destroy"}

EventClass(action) ==
    IF action \in {"start", "unpause"} THEN "up"
    ELSE IF action \in {"die", "pause"} THEN "down" ELSE "other"

\* events.next() is ready with a well-formed event
LifecycleEvent(ev) ==
    /\ pc = "run"
    /\ (EventClass(ev.action) = "up" /\ ev.id \in DOMAIN containers)
            => containers[ev.id].generation < MaxGen
    /\ LET out == OnEvent(config, containers, ev)
       IN  /\ containers' = out.containers
           /\ tasks' = tasks (+) SeqToBag(out.spawned)
    /\ lastEv' = IF \/ EventClass(ev.action) = "other"
                    \/ (EventClass(ev.action) = "down" /\ lastEv[ev.id] = "dropped")
                 THEN lastEv
                 ELSE [lastEv EXCEPT ![ev.id] = EventClass(ev.action)]
    /\ UNCHANGED <<config, chan, pc, shutdown, sinkClosed, call,
                 eventsOpen>>

\* the events a feed can deliver, fields present or not: one action of each
\* kind, an actor with or without id, attributes with or without the name
RawEvents ==
    {RawEvent(action, actor) :
        action \in {None, Some("start"), Some("die"), Some("destroy")},
        actor \in {None}
            \cup {Some(RawActor(None, a)) : a \in {None, Some([name |-> None])}}
            \cup UNION {{Some(RawActor(Some(i), a)) :
                            a \in {None, Some([name |-> None]),
                                   Some([name |-> Some(ContainerName(i))])}} :
                        i \in Ids}}

\* those lacking the action, the actor, the actor's id or its attributes
MalformedEvents ==
    {raw \in RawEvents :
        \/ raw.action = None
        \/ raw.actor = None
        \/ raw.actor[1].id = None
        \/ raw.actor[1].attributes = None}

\* events.next() is ready with an event lacking action, actor, id or
\* attributes: an unwrap panics
MalformedEvent(raw) ==
    /\ pc = "run"
    /\ raw \in MalformedEvents
    /\ LET out == OnRawEvent(config, containers, raw)
       IN  /\ containers' = out.containers
           /\ tasks' = tasks (+) SeqToBag(out.spawned)
           /\ pc' = IF out.panic = "" THEN pc ELSE out.panic
    /\ UNCHANGED <<config, chan, shutdown, sinkClosed, lastEv, call, eventsOpen>>

\* the loop going on after the event stream ended or failed
EventsEnd_reconnect(how) ==
    /\ pc = "run"
    /\ eventsOpen
    /\ eventsOpen' = FALSE
    /\ UNCHANGED <<config, containers, tasks, chan, pc, shutdown, sinkClosed, lastEv,
                   call>>

\* events.next() is ready with Some(Err(error)) or None: run returns
EventsEnd(how) ==
    /\ pc = "run"
    /\ eventsOpen
    /\ eventsOpen' = FALSE
    /\ pc' = "done"
    /\ UNCHANGED <<config, containers, tasks, chan, shutdown, sinkClosed, lastEv, call>>

----------------------------------------------------------------------------
(* build: the source future is select!{ fut, shutdown } *)

Shutdown ==
    /\ ~shutdown
    /\ shutdown' = TRUE
    /\ UNCHANGED <<config, containers, tasks, chan, pc, sinkClosed, lastEv, call,
                 eventsOpen>>

\* the select in build completes on shutdown and drops the Coordinator future
CoordinatorDropped ==
    /\ shutdown
    /\ CoordinatorAlive
    /\ pc' = "dropped"
    /\ UNCHANGED <<config, containers, tasks, chan, shutdown, sinkClosed, lastEv, call,
                 eventsOpen>>

\* the receiving end of the output sink goes away
SinkClose ==
    /\ ~sinkClosed
    /\ sinkClosed' = TRUE
    /\ UNCHANGED <<config, containers, tasks, chan, pc, shutdown, lastEv, call,
                 eventsOpen>>

----------------------------------------------------------------------------
(* Polling tasks: the future spawned by start, and run_event_stream *)

\* every server error taken as the unsupported reporting mode
map_error_any_server(error) ==
    IF error.kind = "DockerResponseServerError" THEN Permanent ELSE Transient

\* the closure of stream.map applied to Err(error): the ErrorPersistence
map_error(error) ==
    IF error.kind = "DockerResponseServerError" /\ error.status_code = NOT_IMPLEMENTED
    THEN Permanent
    ELSE Transient

\* finish sending the report twice
finish_twice(ch, alive, result) ==
    IF alive THEN Append(Append(ch, result), result) ELSE ch

\* finish: main_send.send(result); an error (receiver dropped) is ignored
finish(ch, alive, result) == IF alive THEN Append(ch, result) ELSE ch

\* the result with a recorded feed error taking precedence over a failed sink
StreamResult_error_first(info, sink_ok, error) ==
    IF error # None THEN ErrReport(info.id, error[1])
    ELSE IF ~sink_ok THEN ErrReport(info.id, Permanent)
    ELSE OkReport(info)

\* the result run_event_stream computes from the sink's result and `error`
StreamResult(info, sink_ok, error) ==
    IF sink_ok /\ error = None THEN OkReport(info)
    ELSE IF ~sink_ok THEN ErrReport(info.id, Permanent)
    ELSE ErrReport(info.id, error[1])

TaskStep(t, t2) ==
    /\ tasks' = (tasks (-) SetToBag({t})) (+) SetToBag({t2})
    /\ UNCHANGED <<config, containers, chan, pc, shutdown, sinkClosed, lastEv, call,
                 eventsOpen>>

\* a task that removes its own tracker when it ends
TaskEnd_untracks(t, result) ==
    /\ tasks' = tasks (-) SetToBag({t})
    /\ chan' = finish(chan, CoordinatorAlive, result)
    /\ containers' = remove(containers, t.id)
    /\ UNCHANGED <<config, pc, shutdown, sinkClosed, lastEv, call, eventsOpen>>

\* a task that can hand over its report only to a live Coordinator
TaskEnd_waits(t, result) ==
    /\ CoordinatorAlive
    /\ tasks' = tasks (-) SetToBag({t})
    /\ chan' = finish(chan, CoordinatorAlive, result)
    /\ UNCHANGED <<config, containers, pc, shutdown, sinkClosed, lastEv, call,
                   eventsOpen>>

TaskEnd(t, result) ==
    /\ tasks' = tasks (-) SetToBag({t})
    /\ chan' = finish(chan, CoordinatorAlive, result)
    /\ UNCHANGED <<config, containers, pc, shutdown, sinkClosed, lastEv, call,
                 eventsOpen>>

\* What one step makes of the task t: the task it continues as, or the
\* result it calls finish with
Continue(t2) == [next |-> Some(t2), report |-> None]
Finish(result) == [next |-> None, report |-> Some(result)]

TaskApply(t, o) ==
    IF o.report = None THEN TaskStep(t, o.next[1]) ELSE TaskEnd(t, o.report[1])

\* a failed inspect reported as a permanent failure
inspect_failed_permanent(t) == Finish(ErrReport(t.id, Permanent))

\* start: inspect_container failed
inspect_failed(t) == Finish(ErrReport(t.id, Transient))

\* run_event_stream: the feed yields Err(e). With no chunk waiting the sink
\* has nothing left to send and returns Ok; with one waiting it is sent last
feed_error(t, e) ==
    IF t.pc = "stream"
    THEN Finish(StreamResult(t.info[1], TRUE, Some(map_error(e))))
    ELSE Continue([t EXCEPT !.pc = "flush", !.error = Some(map_error(e))])

\* the end of the stream taken for a Transient failure
stream_end_err(t) ==
    IF t.pc = "stream"
    THEN Finish(ErrReport(t.id, Transient))
    ELSE Continue([t EXCEPT !.pc = "flush", !.error = Some(Transient)])

\* run_event_stream: the feed yields None, or take_until(shutdown) ends the
\* stream; `error` is None
stream_end(t) ==
    IF t.pc = "stream"
    THEN Finish(StreamResult(t.info[1], TRUE, None))
    ELSE Continue([t EXCEPT !.pc = "flush"])

\* run_event_stream: send_event_stream sends the waiting chunk; after the
\* last one (pc "flush") it returns and the result is computed
send_chunk(t, closed) ==
    IF closed THEN Finish(StreamResult(t.info[1], FALSE, t.error))
    ELSE IF t.pc = "sending" THEN Continue([t EXCEPT !.pc = "stream"])
    ELSE Finish(StreamResult(t.info[1], TRUE, t.error))

\* tokio::time::sleep(duration) has elapsed
TaskBackoffElapsed(t) ==
    /\ t.pc = "backoff"
    /\ TaskStep(t, [t EXCEPT !.pc = "inspect", !.sleep = None])

\* inspect_container answered: run_event_stream(info) begins
TaskInspectOk(t) ==
    /\ t.pc = "inspect"
    /\ LET info == ContainerMetricInfo_new(t.id, from_details(InspectResponse(t.id)))
       IN  TaskStep(t, StreamTask(info))

\* inspect_container failed: finish(Err((id, Transient)))
TaskInspectErr(t) ==
    /\ t.pc = "inspect"
    /\ TaskApply(t, inspect_failed(t))

\* the sink holds a batch taken from the stream and waits, at its
\* backpressure, to send it (pc "flush": the stream ended behind the batch)
chunk_in_hand(t) == t.pc \in {"sending", "flush"}

\* a feed that is not raced against the shutdown signal
TaskFeedPayload_noshutdown(t) ==
    /\ t.pc = "stream"
    /\ TaskStep(t, [t EXCEPT !.pc = "sending"])

\* the stats feed yields a payload whose metrics wait in the chunk to be sent
TaskFeedPayload(t) ==
    /\ t.pc = "stream"
    /\ ~shutdown
    /\ TaskStep(t, [t EXCEPT !.pc = "sending"])

\* the stats feed yields an error: take_while records it and ends the stream
TaskFeedError(t, e) ==
    /\ t.pc \in {"stream", "sending"}
    /\ ~shutdown
    /\ TaskApply(t, feed_error(t, e))

\* the stats feed ends
TaskFeedEnd(t) ==
    /\ t.pc \in {"stream", "sending"}
    /\ ~shutdown
    /\ TaskApply(t, stream_end(t))

\* take_until(shutdown) ends the stream
TaskShutdown(t) ==
    /\ t.pc \in {"stream", "sending"}
    /\ shutdown
    /\ TaskApply(t, stream_end(t))

\* send_batch of the waiting chunk completes, or fails on a closed sink
TaskSend(t) ==
    /\ chunk_in_hand(t)
    /\ TaskApply(t, send_chunk(t, sinkClosed))

----------------------------------------------------------------------------

Next ==
    \/ \E listed \in SUBSET Ids : Discover(listed)
    \/ DiscoverFail
    \/ RecvReport
    \/ \E id \in Ids, action \in EventActions, name \in {0, 1} :
          LifecycleEvent([action |-> action, id |-> id,
                          name |-> IF name = 1 THEN Some(ContainerName(id)) ELSE None])
    \/ \E raw \in MalformedEvents : MalformedEvent(raw)
    \/ \E how \in {"events_error", "events_end"} : EventsEnd(how)
    \/ Shutdown
    \/ CoordinatorDropped
    \/ SinkClose
    \/ \E t \in BagToSet(tasks) : TaskBackoffElapsed(t)
    \/ \E t \in BagToSet(tasks) : TaskInspectOk(t)
    \/ \E t \in BagToSet(tasks) : TaskInspectErr(t)
    \/ \E t \in BagToSet(tasks) : TaskFeedPayload(t)
    \/ \E t \in BagToSet(tasks), e \in FeedErrors : TaskFeedError(t, e)
    \/ \E t \in BagToSet(tasks) : TaskFeedEnd(t)
    \/ \E t \in BagToSet(tasks) : TaskShutdown(t)
    \/ \E t \in BagToSet(tasks) : TaskSend(t)

Spec == Init /\ [][Next]_vars

----------------------------------------------------------------------------
(* The tracker specification: the methods of one ContainerState called in
   any order the Coordinator can call them in, each call recorded in `call`.
   The info a polling task holds is the info of the task in `tasks`. *)

CallRec(op, pre, arg, post, ret, runs) ==
    [op |-> op, pre |-> Some(pre), arg |-> arg, post |-> Some(post), ret |-> ret,
     runs |-> runs,
     ups |-> call.ups + (IF op = "running" THEN 1 ELSE 0),
     rises |-> call.rises + (IF op = "running" /\ ~pre.running THEN 1 ELSE 0)]

TrackerInit ==
    /\ config \in {c \in Configs : c.hostname = None /\ c.include = None}
    /\ \E id \in Ids :
          /\ containers = insert(<< >>, id, new_running)
          /\ tasks = SetToBag({StreamTask(
                        ContainerMetricInfo_new(id, from_details(InspectResponse(id))))})
    /\ chan = << >>
    /\ pc = "tracker"
    /\ shutdown = FALSE
    /\ sinkClosed = FALSE
    /\ lastEv = [id \in Ids |-> "none"]
    /\ call = NoCall
    /\ eventsOpen = TRUE

CallStep(id, post, spawned, ended, rec) ==
    /\ containers' = insert(containers, id, post)
    /\ tasks' = (tasks (-) SeqToBag(ended)) (+) SeqToBag(spawned)
    /\ call' = rec
    /\ UNCHANGED <<config, chan, pc, shutdown, sinkClosed, lastEv, eventsOpen>>

Call_running(id) ==
    /\ pc = "tracker" /\ id \in DOMAIN containers
    /\ containers[id].generation < MaxGen
    /\ LET s == containers[id]
       IN  CallStep(id, running(s), <<>>, <<>>,
                    CallRec("running", s, None, running(s), None,
                            IF s.info = None THEN 0 ELSE call.runs + 1))

Call_stopped(id) ==
    /\ pc = "tracker" /\ id \in DOMAIN containers
    /\ LET s == containers[id]
       IN  CallStep(id, stopped(s), <<>>, <<>>,
                    CallRec("stopped", s, None, stopped(s), None, call.runs))

\* the task t has ended and the Coordinator hands its info back
Call_return_info(id, t) ==
    /\ pc = "tracker" /\ id \in DOMAIN containers
    /\ t.id = id /\ t.info # None
    /\ containers[id].info = None
    /\ LET s == containers[id]
           r == return_info(s, t.info[1])
       IN  CallStep(id, r.state, <<>>, <<t>>,
                    CallRec("return_info", s, t.info, r.state, Some(r.restart), 0))

\* take_info, the taken info (if any) going to a new task as in restart
Call_take_info(id) ==
    /\ pc = "tracker" /\ id \in DOMAIN containers
    /\ LET s == containers[id]
           r == take_info(s)
       IN  CallStep(id, r.state,
                    IF r.info = None THEN <<>> ELSE <<StreamTask(r.info[1])>>, <<>>,
                    CallRec("take_info", s, None, r.state, r.info, call.runs))

\* restart(tracker), as the Coordinator calls it
Call_restart(id) ==
    /\ pc = "tracker" /\ id \in DOMAIN containers
    /\ LET s == containers[id]
           r == restart(s)
       IN  CallStep(id, r.state, r.spawned, <<>>,
                    CallRec("restart", s, None, r.state, Some(r.spawned), call.runs))

TrackerNext ==
    \/ \E id \in Ids : Call_running(id)
    \/ \E id \in Ids : Call_stopped(id)
    \/ \E t \in BagToSet(tasks) : Call_return_info(t.id, t)
    \/ \E id \in Ids : Call_take_info(id)
    \/ \E id \in Ids : Call_restart(id)

SpecTracker == TrackerInit /\ [][TrackerNext]_vars

----------------------------------------------------------------------------
(* The filter specification: container_name_or_id_included and exclude_self
   called on ids, names, lists and hostnames drawn from small sets, each
   call recorded in `call`. *)

idC == <<3, 2, 1>>

FilterIds == Ids \cup {idC}

FilterNames ==
    {<< >>, <<ContainerName(idA)>>, <<ContainerName(idB)>>, << <<6>>, ContainerName(idB) >>}

\* include_containers / exclude_containers
FilterLists ==
    {None, Some(<< >>), Some(<< <<3>> >>), Some(<< <<3, 2>> >>), Some(<< <<1, 1>> >>),
     Some(<< <<2>>, <<6>> >>)}

\* hostnames shorter than, as long as and longer than MIN_HOSTNAME_LENGTH,
\* prefixes of an id or not
FilterHostnames ==
    {None, Some(<<1>>), Some(<<1, 1, 1, 1, 1>>), Some(<<1, 1, 1, 1, 1, 1>>), Some(idA),
     Some(idB \o <<9>>), Some(<<1, 1, 1, 1, 1, 3>>)}

FilterConfigs ==
    {[hostname |-> h, include |-> i, exclude |-> e] :
        h \in FilterHostnames, i \in FilterLists, e \in FilterLists}

FilterInit ==
    /\ config \in FilterConfigs
    /\ containers = << >>
    /\ tasks = EmptyBag
    /\ chan = << >>
    /\ pc = "filter"
    /\ shutdown = FALSE
    /\ sinkClosed = FALSE
    /\ lastEv = [id \in Ids |-> "none"]
    /\ call = NoCall
    /\ eventsOpen = TRUE

FilterCall(op, arg, ret) ==
    /\ pc = "filter"
    /\ call' = [NoCall EXCEPT !.op = op, !.arg = Some(arg), !.ret = Some(ret)]
    /\ UNCHANGED <<config, containers, tasks, chan, pc, shutdown, sinkClosed, lastEv,
                   eventsOpen>>

Call_included(id, names) ==
    FilterCall("container_name_or_id_included", [id |-> id, names |-> names],
               container_name_or_id_included(config, id, names))

Call_exclude_self(id) ==
    FilterCall("exclude_self", [id |-> id], exclude_self(config, id))

FilterNext ==
    \/ \E id \in FilterIds, names \in FilterNames : Call_included(id, names)
    \/ \E id \in FilterIds : Call_exclude_self(id)

SpecFilter == FilterInit /\ [][FilterNext]_vars

----------------------------------------------------------------------------
(* Vocabulary of the properties *)

\* the tracker table exists as long as the Coordinator future does
Tracked == IF CoordinatorAlive THEN DOMAIN containers ELSE {}

TasksOf(id) == {t \in BagToSet(tasks) : t.id = id}

\* a task in run_event_stream, holding its ContainerMetricInfo
Streaming(t) == t.info # None

ReportsOf(id) == {chan[i] : i \in {j \in 1..Len(chan) : chan[j].id = id}}

----------------------------------------------------------------------------
(* C1: in every reachable state no container id has more than one polling
   task that was spawned and has not yet sent its completion report. *)
C1_AtMostOneTask == \A id \in Ids : TaskCount(id) <= 1

\* both containers polled at once, one of them by a task that restart spawned
\* after a start/unpause event
C1_Witness ==
    /\ pc = "run"
    /\ \A id \in Ids : TaskCount(id) = 1
    /\ \E t \in BagToSet(tasks) : Streaming(t) /\ t.info[1].generation >= 1

(* C2: no missed restart. While the Coordinator runs, no tracker has
   running = true together with a stored pending_info; and for a tracked id
   whose most recently processed lifecycle event is start/unpause, once no
   completion report for the id is in flight, a polling task of the id is
   active (possibly still behind its backoff). *)
C2_NoMissedRestart ==
    \A id \in Tracked :
        /\ ~(containers[id].running /\ containers[id].info # None)
        /\ (lastEv[id] = "up" /\ ReportCount(id) = 0) => TaskCount(id) >= 1

\* a start/unpause was the last event of a tracked id, its report has been
\* processed and the restarted task carries the bumped generation
C2_Witness ==
    \E id \in Tracked :
        /\ lastEv[id] = "up" /\ ReportCount(id) = 0
        /\ containers[id].generation >= 1
        /\ \E t \in TasksOf(id) :
              Streaming(t) /\ t.info[1].generation = containers[id].generation

(* C3: the precondition of return_info always holds. The debug assertion
   never fires, and whenever an Ok(info) report is the next one the
   Coordinator processes, the tracker of info.id holds no pending_info. *)
C3_ReturnInfoPrecondition ==
    /\ pc # "debug_assert"
    /\ (pc = "run" /\ chan # << >> /\ Head(chan).kind = "Ok"
            /\ Head(chan).id \in DOMAIN containers)
          => containers[Head(chan).id].info = None

\* an Ok report is next whose info already went through return_info and
\* take_info once (its generation was stamped by take_info)
C3_Witness ==
    /\ pc = "run" /\ chan # << >> /\ Head(chan).kind = "Ok"
    /\ Head(chan).info[1].generation >= 1
    /\ Head(chan).id \in DOMAIN containers

(* C4: whenever the Coordinator processes a completion report, the tracker
   of its id is in the table. No expect fails, and every report in the
   channel of a running Coordinator is for a tracked id. *)
C4_ReportHasTracker ==
    /\ pc # "expect"
    /\ \A i \in 1..Len(chan) : CoordinatorAlive => chan[i].id \in DOMAIN containers

\* a Transient report is next for a running tracker (the arm that removes
\* and re-inserts the id) while a retry spawned by that arm is already waiting
C4_Witness ==
    /\ pc = "run" /\ chan # << >> /\ Head(chan).kind = "Err"
    /\ Head(chan).persistence = Some(Transient)
    /\ Head(chan).id \in DOMAIN containers
    /\ containers[Head(chan).id].running
    /\ \E t \in BagToSet(tasks) : t.pc = "backoff"

(* C5 as stated: for every tracked id, pending_info is Some if and only if
   no polling task is active for the id. *)
C5_Original ==
    \A id \in Tracked : (containers[id].info # None) <=> (TaskCount(id) = 0)

(* C5 amended: for every tracked id, pending_info is Some if and only if no
   polling task is active for the id and no completion report for the id
   waits in the channel. *)
C5_PendingIffIdle ==
    \A id \in Tracked :
        (containers[id].info # None) <=> (TaskCount(id) = 0 /\ ReportCount(id) = 0)

\* one tracker with its info stored and no task, the other with a task
C5_Witness ==
    /\ \E id \in Tracked : containers[id].info # None /\ TaskCount(id) = 0
    /\ \E id \in Tracked : containers[id].info = None /\ TaskCount(id) = 1

----------------------------------------------------------------------------
(* The two orders in which the Coordinator can process one lifecycle event
   and one completion report of the same id, from the current table. *)

Both(first, second) ==
    [containers |-> second.containers, spawned |-> first.spawned \o second.spawned,
     ret |-> IF first.ret # None THEN first.ret ELSE second.ret]

EventThenReport(ev, rep) ==
    LET a == OnEvent(config, containers, ev)
    IN  Both(a, OnReport(a.containers, rep))

ReportThenEvent(ev, rep) ==
    LET a == OnReport(containers, rep)
    IN  Both(a, OnEvent(config, a.containers, ev))

\* the reports a live task can still send
PossibleReports(t) ==
    IF Streaming(t)
    THEN {OkReport(t.info[1]), ErrReport(t.id, Transient), ErrReport(t.id, Permanent)}
    ELSE {ErrReport(t.id, Transient)}

\* the reports of id that are in the channel or can still be sent
ReportsFor(id) == ReportsOf(id) \cup UNION {PossibleReports(t) : t \in TasksOf(id)}

EventsFor(id, actions) ==
    {[action |-> a, id |-> id, name |-> n] :
        a \in actions, n \in {None, Some(ContainerName(id))}}

WithGeneration(info, g) == [info EXCEPT !.generation = g]

(* C6 as stated: for a tracker whose task is active, a start/unpause event
   and the task's Ok report, in either order, end with exactly one new task
   that carries the bumped generation, and with pending_info None. *)
C6_Original ==
    \A id \in Tracked : \A t \in TasksOf(id) : Streaming(t) =>
        \A ev \in EventsFor(id, {"start", "unpause"}) :
        \A o \in {EventThenReport(ev, OkReport(t.info[1])),
                  ReportThenEvent(ev, OkReport(t.info[1]))} :
            /\ o.spawned = <<StreamTask(WithGeneration(t.info[1],
                                                        containers[id].generation + 1))>>
            /\ o.containers[id].info = None

(* C6 amended: in either order exactly one new task is spawned and the
   tracker ends as (pending_info None, running, generation bumped by one).
   The new task carries the bumped generation when the event is processed
   first, and when the report is processed first on a stopped tracker whose
   generation the report carries; when the report is processed first on a
   running tracker, or carries an older generation, the task is spawned
   before the bump and carries the generation from before it. *)
C6_StartEitherOrder ==
    \A id \in Tracked : \A t \in TasksOf(id) : Streaming(t) =>
        \A ev \in EventsFor(id, {"start", "unpause"}) :
        LET s == containers[id]
            info == t.info[1]
            a == EventThenReport(ev, OkReport(info))
            b == ReportThenEvent(ev, OkReport(info))
            end == [info |-> None, running |-> TRUE, generation |-> s.generation + 1]
        IN  /\ a.containers[id] = end
            /\ a.spawned = <<StreamTask(WithGeneration(info, s.generation + 1))>>
            /\ b.containers[id] = end
            /\ b.spawned = <<StreamTask(WithGeneration(info,
                    IF s.running \/ info.generation < s.generation
                    THEN s.generation ELSE s.generation + 1))>>

\* after a start/unpause the restarted task of a running tracker carries the
\* bumped generation and is itself active
C6_Witness ==
    \E id \in Tracked : \E t \in TasksOf(id) :
        /\ Streaming(t) /\ lastEv[id] = "up"
        /\ containers[id].running
        /\ containers[id].generation >= 1
        /\ t.info[1].generation = containers[id].generation

(* C7 as stated: for a tracker with an active task whose info carries the
   tracker's generation, stopped() and the Ok report, in either order, give
   needs_restart = false, leave the info in pending_info and spawn no task. *)
C7_Original ==
    \A id \in Tracked : \A t \in TasksOf(id) :
        (Streaming(t) /\ t.info[1].generation = containers[id].generation) =>
        \A ev \in EventsFor(id, {"die", "pause"}) :
        \A o \in {EventThenReport(ev, OkReport(t.info[1])),
                  ReportThenEvent(ev, OkReport(t.info[1]))} :
            /\ o.ret = Some(FALSE)
            /\ o.containers[id].info = Some(t.info[1])
            /\ o.spawned = << >>

(* C7 amended: that outcome holds when stopped() is processed first, and
   when the report is processed first on a tracker that is already stopped.
   When the report is processed first on a running tracker, needs_restart is
   true, one task carrying the current generation is spawned and
   pending_info is None; the later stopped() only clears running. *)
C7_StopEitherOrder ==
    \A id \in Tracked : \A t \in TasksOf(id) :
        (Streaming(t) /\ t.info[1].generation = containers[id].generation) =>
        \A ev \in EventsFor(id, {"die", "pause"}) :
        LET s == containers[id]
            info == t.info[1]
            a == EventThenReport(ev, OkReport(info))
            b == ReportThenEvent(ev, OkReport(info))
            kept == [info |-> Some(info), running |-> FALSE, generation |-> s.generation]
        IN  /\ a.ret = Some(FALSE) /\ a.containers[id] = kept /\ a.spawned = << >>
            /\ IF s.running
               THEN /\ b.ret = Some(TRUE)
                    /\ b.spawned = <<StreamTask(info)>>
                    /\ b.containers[id] = [kept EXCEPT !.info = None]
               ELSE /\ b.ret = Some(FALSE) /\ b.containers[id] = kept
                    /\ b.spawned = << >>

\* a stopped tracker keeps the returned info of its current generation, with
\* no task, after at least one earlier restart
C7_Witness ==
    \E id \in Tracked :
        /\ lastEv[id] = "down" /\ ~containers[id].running
        /\ containers[id].info # None
        /\ containers[id].generation >= 1
        /\ containers[id].info[1].generation = containers[id].generation
        /\ TaskCount(id) = 0

(* C8 as stated: for a tracked id, one lifecycle event and one completion
   report of the id leave the same tracker table whichever is processed
   first. *)
C8_Original ==
    \A id \in Tracked : \A rep \in ReportsFor(id) :
        \A ev \in EventsFor(id, {"start", "unpause", "die", "pause"}) :
            EventThenReport(ev, rep).containers = ReportThenEvent(ev, rep).containers

\* the pairs for which the order does not matter, s the tracker before both
OrderFree(s, ev, rep) ==
    IF rep.kind = "Ok"
    THEN \/ ev.action \in {"start", "unpause"}
         \/ ~s.running
         \/ rep.info[1].generation < s.generation
    ELSE /\ ev.action \in {"die", "pause"}
         /\ (rep.persistence = Some(Permanent) \/ ~s.running)

(* C8 amended: the table after both is the same in either order for an Ok
   report with a start/unpause event, for an Ok report with a die/pause event
   unless the tracker is running and the report carries its generation, and
   for an Err report with a die/pause event unless the report is Transient
   and the tracker is running. *)
C8_OrderIndependence ==
    \A id \in Tracked : \A rep \in ReportsFor(id) :
        \A ev \in EventsFor(id, {"start", "unpause", "die", "pause"}) :
            OrderFree(containers[id], ev, rep) =>
                EventThenReport(ev, rep).containers = ReportThenEvent(ev, rep).containers

\* a stale Ok report waits in the channel of a stopped tracker: events of the
\* id were processed while the report was on its way
C8_Witness ==
    \E id \in Tracked : \E rep \in ReportsOf(id) :
        /\ rep.kind = "Ok"
        /\ rep.info[1].generation < containers[id].generation
        /\ ~containers[id].running /\ lastEv[id] = "down"

----------------------------------------------------------------------------
(* Properties of the ContainerState methods, under SpecTracker *)

(* C9: return_info(info) returns running \/ info.generation < generation,
   evaluated on the tracker before the call, stores info into pending_info
   and leaves running and generation unchanged. *)
C9_ReturnInfo ==
    call.op = "return_info" =>
        LET pre == call.pre[1]
            post == call.post[1]
            info == call.arg[1]
        IN  /\ call.ret = Some(pre.running \/ info.generation < pre.generation)
            /\ post.info = Some(info)
            /\ post.running = pre.running
            /\ post.generation = pre.generation
            /\ \E id \in DOMAIN containers : containers[id] = post

\* a stale info returned to a stopped tracker: only the generations decide
C9_Witness ==
    /\ call.op = "return_info"
    /\ ~call.pre[1].running
    /\ call.arg[1].generation < call.pre[1].generation
    /\ call.ret = Some(TRUE)

(* C10: take_info() empties pending_info and returns the stored info with
   its generation set to the tracker's generation at the call and its id,
   name and tags as stored, however many running() calls came since it was
   stored; with pending_info None it returns None and changes nothing. *)
C10_TakeInfo ==
    call.op = "take_info" =>
        LET pre == call.pre[1]
            post == call.post[1]
        IN  IF pre.info = None
            THEN call.ret = None /\ post = pre
            ELSE /\ Len(call.ret) = 1
                 /\ call.ret[1].generation = pre.generation
                 /\ call.ret[1].id = pre.info[1].id
                 /\ call.ret[1].name = pre.info[1].name
                 /\ call.ret[1].tags = pre.info[1].tags
                 /\ post.info = None
                 /\ post.running = pre.running
                 /\ post.generation = pre.generation

\* the info was stored, running() was applied twice, then take_info stamped it
C10_Witness ==
    /\ call.op = "take_info"
    /\ call.pre[1].info # None
    /\ call.runs = 2
    /\ call.pre[1].info[1].generation + 2 = call.pre[1].generation
    /\ call.ret[1].generation = call.pre[1].generation

----------------------------------------------------------------------------
(* The Err arm of the Coordinator *)

\* the Err reports of id that are in the channel or can still be sent
ErrReportsFor(id, p) == {rep \in ReportsFor(id) : rep = ErrReport(id, p)}

(* C11: when the Coordinator processes Err((id, Transient)) and the tracker
   is running, the tracker is replaced by a fresh one (pending_info None,
   running, generation 0) and exactly one start task of the id is scheduled
   that sleeps the configured backoff before it inspects; when the tracker is
   not running the id is removed from the table and no task is scheduled.
   Other trackers are left as they are. *)
C11_TransientArm ==
    \A id \in Tracked : \A rep \in ErrReportsFor(id, Transient) :
        LET s == containers[id]
            o == OnReport(containers, rep)
        IN  /\ o.panic = ""
            /\ \A other \in DOMAIN containers \ {id} :
                  other \in DOMAIN o.containers /\ o.containers[other] = containers[other]
            /\ IF s.running
               THEN /\ DOMAIN o.containers = DOMAIN containers
                    /\ o.containers[id] = [info |-> None, running |-> TRUE, generation |-> 0]
                    /\ Len(o.spawned) = 1
                    /\ o.spawned[1].id = id
                    /\ o.spawned[1].pc = "backoff"
                    /\ o.spawned[1].sleep = Some(retry_backoff_secs)
                    /\ o.spawned[1].info = None
               ELSE /\ DOMAIN o.containers = DOMAIN containers \ {id}
                    /\ o.spawned = << >>

\* the retry of a container that had been restarted before: its tracker is
\* fresh again and its only task waits behind the backoff, while the other
\* container was dropped
C11_Witness ==
    /\ pc = "run"
    /\ \E id \in Tracked :
          /\ containers[id] = [info |-> None, running |-> TRUE, generation |-> 0]
          /\ lastEv[id] = "up"
          /\ TaskCount(id) = 1
          /\ \E t \in TasksOf(id) : t.pc = "backoff" /\ t.sleep = Some(retry_backoff_secs)
          /\ \E other \in Ids \ Tracked : lastEv[other] = "dropped"

(* C12: when the Coordinator processes Err((id, Permanent)) the tracker of
   the id is removed, whatever its running flag and generation, and no task
   is started or scheduled; other trackers are left as they are. *)
C12_PermanentArm ==
    \A id \in Tracked : \A rep \in ErrReportsFor(id, Permanent) :
        LET o == OnReport(containers, rep)
        IN  /\ o.panic = ""
            /\ o.containers = remove(containers, id)
            /\ id \notin DOMAIN o.containers
            /\ o.spawned = << >>

\* a Permanent report is next for a running tracker that was restarted before
C12_Witness ==
    /\ pc = "run" /\ chan # << >>
    /\ Head(chan) \in {ErrReport(id, Permanent) : id \in Ids}
    /\ Head(chan).id \in DOMAIN containers
    /\ containers[Head(chan).id].running
    /\ containers[Head(chan).id].generation >= 1

(* C13 as stated: an id dropped because a Transient failure was processed
   while its tracker was not running is in the table in no later state, and
   no polling task is started for it again. *)
C13_Original ==
    [][\A id \in Ids : lastEv[id] = "dropped" =>
            (id \notin DOMAIN containers' /\ TaskCount(id)' = 0)]_vars

(* C13 amended: an id dropped because a Transient failure was processed while
   its tracker was not running stays out of the table, with no polling task
   and no report, as long as no start/unpause event of the id is processed:
   no die, pause or other event of the id and no report in flight changes the
   table or spawns a task. A start/unpause event of the id that carries the
   container's name tracks it anew, with a fresh tracker (pending_info None,
   running, generation 0) and one start task without backoff. *)
C13_DroppedUntilStart ==
    \A id \in Ids : lastEv[id] = "dropped" =>
        /\ id \notin DOMAIN containers
        /\ TaskCount(id) = 0 /\ ReportCount(id) = 0
        /\ \A ev \in EventsFor(id, {"die", "pause", "destroy"}) :
              LET o == OnEvent(config, containers, ev)
              IN  o.containers = containers /\ o.spawned = << >>
        /\ \A i \in 1..Len(chan) :
              LET o == OnReport(containers, chan[i])
              IN  id \notin DOMAIN o.containers
                    /\ \A j \in 1..Len(o.spawned) : o.spawned[j].id # id
        /\ \A action \in {"start", "unpause"} :
              LET ev == [action |-> action, id |-> id, name |-> Some(ContainerName(id))]
                  o == OnEvent(config, containers, ev)
              IN  /\ o.containers = insert(containers, id,
                          [info |-> None, running |-> TRUE, generation |-> 0])
                  /\ Len(o.spawned) = 1
                  /\ o.spawned[1].id = id /\ o.spawned[1].pc = "inspect"
                  /\ o.spawned[1].sleep = None

\* an id is dropped while the Coordinator runs on with the other container,
\* whose report waits in the channel
C13_Witness ==
    /\ pc = "run"
    /\ \E id \in Ids :
          /\ lastEv[id] = "dropped"
          /\ \E other \in Tracked : other # id /\ ReportCount(other) = 1

(* C14 as stated: over the life of a tracker its generation equals the
   number of times its running flag went from false to true. *)
C14_Original ==
    \A id \in DOMAIN containers : containers[id].generation = call.rises

(* C14 amended: the generation is incremented exactly once per running()
   call, whether the running flag was false or already true: over the life
   of a tracker its generation equals the number of running() calls, which
   is at least the number of times the flag went from false to true, and
   stopped, return_info and take_info leave it unchanged. *)
C14_GenerationCountsRunning ==
    /\ \A id \in DOMAIN containers :
          /\ containers[id].generation = call.ups
          /\ call.rises <= containers[id].generation
    /\ call.op = "running" => call.post[1].generation = call.pre[1].generation + 1
    /\ call.op \in {"stopped", "return_info", "take_info"} =>
          call.post[1].generation = call.pre[1].generation

\* two running() calls, only one of which found the flag false, then another
\* method
C14_Witness ==
    /\ call.ups = 2 /\ call.rises = 1
    /\ call.op \in {"stopped", "return_info", "take_info"}
    /\ call.post[1].generation = 2

----------------------------------------------------------------------------
(* The completion report of a polling task *)

\* the reports with which the task t can end in one step from this state:
\* none while it sleeps or still has a chunk to send to an open sink
EndReports(t) ==
    IF t.pc = "inspect" THEN {ErrReport(t.id, Transient)}
    ELSE IF t.pc = "stream"
    THEN {OkReport(t.info[1]), ErrReport(t.id, Transient), ErrReport(t.id, Permanent)}
    ELSE IF t.pc \in {"sending", "flush"} /\ sinkClosed THEN {ErrReport(t.id, Permanent)}
    ELSE IF t.pc = "flush"
    THEN {IF t.error = None THEN OkReport(t.info[1]) ELSE ErrReport(t.id, t.error[1])}
    ELSE {}

\* a task ends in this step: it leaves the bag and one report of its id,
\* among those its state allows, is sent (the send fails once the receiver is
\* gone)
EndsWithReport ==
    \E t \in BagToSet(tasks) :
        /\ tasks' = tasks (-) SetToBag({t})
        /\ \E r \in EndReports(t) :
              chan' = IF CoordinatorAlive THEN Append(chan, r) ELSE chan

(* C15: every polling task, spawned by start or by restart, sends exactly
   one completion report, in the step in which it ends and never before:
   a step adds a report to the channel exactly when a task ends in it, and it
   adds one report, of that task's id. The report is Ok(info) when the feed ended or
   shutdown ended the stream with no feed error recorded and the sink did not
   fail, and Err((id, persistence)) after a metadata fetch failure, a feed
   error or a sink failure. *)
C15_OneReportAtEnd ==
    [][/\ IF BagCardinality(tasks') < BagCardinality(tasks)
          THEN EndsWithReport
          ELSE Len(chan') <= Len(chan)
       /\ \A t \in BagToSet(tasks) :
             /\ t.pc = "stream" =>
                   /\ stream_end(t) = Finish(OkReport(t.info[1]))
                   /\ \A e \in FeedErrors :
                         LET o == feed_error(t, e)
                         IN  o.next = None /\ o.report[1].kind = "Err"
             /\ t.pc = "sending" =>
                   /\ stream_end(t).report = None
                   /\ \A e \in FeedErrors : feed_error(t, e).report = None
             /\ t.pc = "flush" =>
                   LET o == send_chunk(t, sinkClosed)
                   IN  /\ o.next = None
                       /\ o.report[1].kind = "Ok" <=> (t.error = None /\ ~sinkClosed)
      ]_vars

\* after shutdown and with the Coordinator still there, the task of one
\* container has ended with Ok and the task of the other with Err, a task
\* that restart had spawned; both reports wait in the channel
C15_Witness ==
    /\ pc = "run" /\ shutdown
    /\ \A id \in Ids : TaskCount(id) = 0 /\ ReportCount(id) = 1
    /\ \E i, j \in 1..Len(chan) :
          /\ chan[i].kind = "Ok" /\ chan[i].info[1].generation >= 1
          /\ chan[j].kind = "Err"

\* the report the task t ends with after the feed error e when the sink does
\* not fail: sent at once, or after the waiting chunk has been sent
ReportAfterFeedError(t, e) ==
    LET o == feed_error(t, e)
    IN  IF o.report # None THEN o.report[1] ELSE send_chunk(o.next[1], FALSE).report[1]

(* C16: on a stats feed error the task stops consuming the feed at that
   first error: it ends, or only sends the chunk that was waiting and then
   ends, and a task with a recorded error is never again at a position where
   it reads the feed. Provided the sink does not fail its report is
   Err((id, Permanent)) if the error is the server response 501 Not
   Implemented and Err((id, Transient)) for every other feed error. *)
C16_FeedError ==
    \A t \in BagToSet(tasks) :
        /\ t.error # None => t.pc = "flush"
        /\ t.pc \in {"stream", "sending"} =>
              \A e \in FeedErrors :
                  LET o == feed_error(t, e)
                      unsupported == /\ e.kind = "DockerResponseServerError"
                                     /\ e.status_code = 501
                  IN  /\ o.next # None =>
                            (o.next[1].pc = "flush" /\ o.next[1].error # None)
                      /\ ReportAfterFeedError(t, e) =
                            ErrReport(t.id, IF unsupported THEN Permanent ELSE Transient)

\* with the sink open, one task has recorded the unsupported-mode error and
\* has its last chunk to send, another has recorded a Transient error
C16_Witness ==
    /\ ~sinkClosed
    /\ \E t \in BagToSet(tasks) : t.pc = "flush" /\ t.error = Some(Permanent)
    /\ \E t \in BagToSet(tasks) : t.pc = "flush" /\ t.error = Some(Transient)

(* C17: when the inspect of a task created by start fails, the task never
   opens the stats feed and forwards nothing: it ends in that step, never
   having held a ContainerMetricInfo, and its one report is
   Err((id, Transient)). *)
C17_InspectFailure ==
    \A t \in BagToSet(tasks) :
        /\ t.pc \in {"backoff", "inspect"} => (~Streaming(t) /\ t.error = None)
        /\ t.pc = "inspect" =>
              LET o == inspect_failed(t)
              IN  /\ o.next = None
                  /\ o.report = Some(ErrReport(t.id, Transient))
                  /\ o.report[1] \in EndReports(t)

\* the start task of a discovered container is about to inspect while the
\* failure report of the other discovered container's task waits in the
\* channel, its tracker as start left it
C17_Witness ==
    /\ pc = "run"
    /\ \E t \in BagToSet(tasks) :
          /\ t.pc = "inspect"
          /\ lastEv[t.id] = "none"
          /\ \E other \in Tracked :
                /\ other # t.id
                /\ ErrReport(other, Transient) \in ReportsOf(other)
                /\ containers[other] = new_running /\ lastEv[other] = "none"

(* C18: when the sink is closed while a task sends a chunk, the task ends
   with the report Err((id, Permanent)), also when a Transient feed error
   was recorded in the same run; the Coordinator, processing that report,
   removes the tracker and starts no retry. *)
C18_SinkClosed ==
    \A t \in BagToSet(tasks) :
        t.pc \in {"sending", "flush"} =>
            LET o == send_chunk(t, TRUE)
            IN  /\ o.next = None
                /\ o.report = Some(ErrReport(t.id, Permanent))
                /\ t.id \in Tracked =>
                      LET c == OnReport(containers, o.report[1])
                      IN  /\ t.id \notin DOMAIN c.containers
                          /\ c.spawned = << >>
                          /\ c.panic = ""

\* the sink is closed; a task that recorded a Transient feed error still has
\* its last chunk to send, and the Permanent report of the other container's
\* task is the next the Coordinator processes, for a running tracker
C18_Witness ==
    /\ pc = "run" /\ sinkClosed
    /\ \E t \in BagToSet(tasks) :
          /\ t.pc = "flush" /\ t.error = Some(Transient)
          /\ chan # << >>
          /\ Head(chan) \in {ErrReport(id, Permanent) : id \in Ids \ {t.id}}
          /\ Head(chan).id \in DOMAIN containers
          /\ containers[Head(chan).id].running

----------------------------------------------------------------------------
(* Termination of the Coordinator *)

(* C19: when the lifecycle event feed ends or yields an error the
   Coordinator terminates: in that step run returns, touching neither
   table, tasks nor channel, and from then on it stays returned, the feed is
   not opened again, no lifecycle event and no completion report is
   processed, no tracker changes and no task is spawned. *)
C19_FeedEndTerminal ==
    [][/\ (eventsOpen /\ ~eventsOpen') =>
             (pc' = "done" /\ UNCHANGED <<containers, tasks, chan, lastEv>>)
       /\ ~eventsOpen =>
             /\ pc = "done" /\ pc' = "done"
             /\ ~eventsOpen'
             /\ UNCHANGED <<containers, lastEv>>
             /\ Len(chan') >= Len(chan)
             /\ BagCardinality(tasks') <= BagCardinality(tasks)
      ]_vars

\* run has returned on the end of the feed while both containers are tracked,
\* one with a live task and one with a report that will never be processed
C19_Witness ==
    /\ pc = "done" /\ ~eventsOpen
    /\ DOMAIN containers = Ids
    /\ \E id \in Ids : TaskCount(id) = 1
    /\ \E id \in Ids : ReportCount(id) = 1

(* C20 as stated: the Coordinator leaves its loop only when the completion
   channel is closed or the lifecycle feed has ended or failed; a malformed
   event aside, no step takes it out of the loop, not even the firing of the
   shutdown signal. *)
C20_Original ==
    [][(pc = "run" /\ pc' # "run") => pc' \in {"done", "unwrap"}]_vars

(* C20 amended: the Coordinator leaves its loop only when the lifecycle feed
   ends or fails, when the completion channel is closed, when an event is
   malformed, or when the shutdown signal has fired: the select in build then
   completes and drops the Coordinator, leaving table, tasks and channel as
   they are. No completion report and no well-formed lifecycle event takes it
   out of the loop. *)
C20_ExitConditions ==
    [][(pc = "run" /\ pc' # "run") =>
          /\ UNCHANGED <<containers, tasks, chan, lastEv>>
          /\ \/ pc' = "done" /\ eventsOpen /\ ~eventsOpen'
             \/ pc' = "done" /\ chan = << >> /\ SenderCount = 0
             \/ pc' = "unwrap"
             \/ pc' = "dropped" /\ shutdown
      ]_vars

\* the Coordinator was dropped on shutdown out of its loop, with a report
\* waiting and a task still live
C20_Witness ==
    /\ pc = "dropped" /\ shutdown
    /\ eventsOpen
    /\ containers # << >>
    /\ chan # << >>
    /\ tasks # EmptyBag

----------------------------------------------------------------------------
(* Lifecycle events *)

(* C21: a received lifecycle event that lacks its action, its actor, its
   actor id or its attributes is fatal whatever its action: processing it
   panics on an unwrap, the Coordinator stops, and no tracker is changed and
   no task spawned by that event, also when the event is a die/pause or an
   ignored action for a tracked, running container. *)
C21_MalformedFatal ==
    pc = "run" =>
        \A raw \in MalformedEvents :
            LET o == OnRawEvent(config, containers, raw)
            IN  /\ o.panic = "unwrap"
                /\ o.containers = containers
                /\ o.spawned = << >>

\* the Coordinator has panicked on an unwrap while both containers were
\* tracked and running, after a restart and with a task live
C21_Witness ==
    /\ pc = "unwrap"
    /\ DOMAIN containers = Ids
    /\ \A id \in Ids : containers[id].running
    /\ \E id \in Ids : containers[id].generation >= 1 /\ TaskCount(id) = 1

----------------------------------------------------------------------------
(* Properties of the filter policy, under SpecFilter *)

\* p is a prefix of s
IsPrefix(p, s) == Len(p) <= Len(s) /\ \A i \in 1..Len(p) : s[i] = p[i]

\* the id or some candidate name starts with an entry of list
PrefixInList(id, names, list) ==
    \E k \in 1..Len(list) :
        IsPrefix(list[k], id) \/ \E n \in 1..Len(names) : IsPrefix(list[k], names[n])

\* the Filter Policy: included by the include list (or none configured) and
\* not matched by a configured exclude list
FilterPolicy(cfg, id, names) ==
    /\ (cfg.include = None \/ PrefixInList(id, names, cfg.include[1]))
    /\ ~(cfg.exclude # None /\ PrefixInList(id, names, cfg.exclude[1]))

\* the id is the container of this process
SelfExcluded(cfg, id) ==
    /\ cfg.hostname # None
    /\ Len(cfg.hostname[1]) >= MIN_HOSTNAME_LENGTH
    /\ IsPrefix(cfg.hostname[1], id)

(* C22: container_name_or_id_included(id, names) is true iff (no include
   list is configured, or the id or some candidate name starts with an entry
   of the include list) and not (an exclude list is configured and the id or
   some candidate name starts with one of its entries); a container matching
   both lists is excluded. *)
C22_Included ==
    call.op = "container_name_or_id_included" =>
        call.ret[1] <=> FilterPolicy(config, call.arg[1].id, call.arg[1].names)

\* a container whose name matches both the include and the exclude list, and
\* whose id matches neither, is excluded
C22_Witness ==
    /\ call.op = "container_name_or_id_included"
    /\ config.include = Some(<< <<3>> >>) /\ config.exclude = Some(<< <<3, 2>> >>)
    /\ call.arg[1].id = idB /\ call.arg[1].names = <<ContainerName(idB)>>
    /\ call.ret = Some(FALSE)

(* C23: exclude_self(id) is true iff a hostname is present, its length is
   at least 6 and the id starts with it; a shorter hostname never excludes
   an id, even when it is a prefix of the id, and an absent hostname excludes
   nothing. *)
C23_ExcludeSelf ==
    call.op = "exclude_self" =>
        LET id == call.arg[1].id
            h == config.hostname
        IN  /\ call.ret[1] <=> SelfExcluded(config, id)
            /\ (h = None \/ Len(h[1]) < 6) => ~call.ret[1]

\* a hostname of five characters that is a prefix of the id does not exclude it
C23_Witness ==
    /\ call.op = "exclude_self"
    /\ config.hostname = Some(<<1, 1, 1, 1, 1>>)
    /\ call.arg[1].id = idA
    /\ call.ret = Some(FALSE)

----------------------------------------------------------------------------
(* Lifecycle events, under Spec *)

UpEvents(id) == EventsFor(id, {"start", "unpause"})

DownEvents(id) == EventsFor(id, {"die", "pause"})

(* C24: a start/unpause event for an untracked id creates a tracker iff the
   id passes the Filter Policy on the event's name attribute and is not
   self-excluded; the tracker created is (None, true, 0) with exactly one
   start(id) without backoff; otherwise the table is unchanged and nothing is
   spawned. *)
C24_UntrackedStart ==
    pc = "run" =>
        \A id \in Ids \ DOMAIN containers : \A ev \in UpEvents(id) :
            LET o == OnEvent(config, containers, ev)
            IN  /\ o.panic = ""
                /\ IF FilterPolicy(config, id, ev.name) /\ ~SelfExcluded(config, id)
                   THEN /\ o.containers = insert(containers, id, new_running)
                        /\ o.spawned = <<StartTask(id, None)>>
                        /\ StartTask(id, None).pc = "inspect"
                   ELSE /\ o.containers = containers
                        /\ o.spawned = << >>

\* under the filtering configuration, idA was tracked by a start event (its
\* one task is fetching the metadata) and the start event of idB was refused
C24_Witness ==
    /\ pc = "run"
    /\ config.include # None
    /\ DOMAIN containers = {idA}
    /\ containers[idA] = new_running
    /\ lastEv[idA] = "up" /\ lastEv[idB] = "up"
    /\ TaskCount(idA) = 1 /\ TaskCount(idB) = 0
    /\ \E t \in TasksOf(idA) : t.pc = "inspect"

(* C25: a start/unpause event for a tracked id applies running() and then
   restart: afterwards running = true, the generation is one more than
   before, pending_info is None, a task was spawned iff pending_info was Some
   before, and the filters are not consulted (the outcome is the same
   whatever the name attribute and the configuration). *)
C25_TrackedStart ==
    pc = "run" =>
        \A id \in DOMAIN containers : \A ev \in UpEvents(id) :
            LET o == OnEvent(config, containers, ev)
                pre == containers[id]
            IN  /\ o.panic = ""
                /\ o.containers =
                       insert(containers, id,
                              [info |-> None, running |-> TRUE,
                               generation |-> pre.generation + 1])
                /\ Len(o.spawned) = IF pre.info # None THEN 1 ELSE 0
                /\ pre.info # None =>
                       o.spawned[1] =
                           StreamTask(WithGeneration(pre.info[1], pre.generation + 1))

\* under the filtering configuration idA, stopped with its info handed back,
\* was started again: its tracker is running at a later generation and the
\* task spawned by restart streams at that generation
C25_Witness ==
    /\ pc = "run"
    /\ config.include # None
    /\ idA \in DOMAIN containers
    /\ lastEv[idA] = "up"
    /\ containers[idA].running /\ containers[idA].info = None
    /\ containers[idA].generation = 2
    /\ \E t \in TasksOf(idA) :
           Streaming(t) /\ t.info[1].generation = containers[idA].generation

(* C26: a die/pause event for a tracked id changes only that tracker's
   running flag, to false: generation and pending_info stay, no other
   tracker changes and the arm spawns no task and does nothing else (no
   panic); for an untracked id the table is unchanged and nothing is
   spawned. *)
C26_DiePause ==
    pc = "run" =>
        \A id \in Ids : \A ev \in DownEvents(id) :
            LET o == OnEvent(config, containers, ev)
            IN  /\ o.panic = "" /\ o.spawned = << >>
                /\ o.containers =
                       IF id \in DOMAIN containers
                       THEN insert(containers, id,
                                   [info |-> containers[id].info, running |-> FALSE,
                                    generation |-> containers[id].generation])
                       ELSE containers

\* a stopped tracker that kept its generation and then received the info of
\* its ended task, next to a tracker that is still running
C26_Witness ==
    /\ pc = "run"
    /\ DOMAIN containers = Ids
    /\ lastEv[idA] = "down"
    /\ ~containers[idA].running /\ containers[idA].generation = 1
    /\ containers[idA].info # None
    /\ containers[idB].running


(* C27: startup discovery creates, for every listed running container that
   is not self-excluded and is included by the Filter Policy (on its listed
   names without the leading '/'), exactly one tracker (None, true, 0) and
   exactly one start(id) without backoff, and no tracker and no task for a
   listed container that is self-excluded or not included. *)
C27_Discovery ==
    pc = "discover" =>
        \A listed \in SUBSET Ids :
            LET o == handle_running_containers(config, listed)
                pass == {id \in listed :
                            /\ ~SelfExcluded(config, id)
                            /\ FilterPolicy(config, id, <<ContainerName(id)>>)}
            IN  /\ DOMAIN o.containers = pass
                /\ \A id \in pass :
                       /\ o.containers[id] = new_running
                       /\ CopiesIn(StartTask(id, None), o.spawned) = 1
                /\ BagCardinality(o.spawned) = Cardinality(pass)
                /\ \A t \in BagToSet(o.spawned) : t.pc = "inspect" /\ t.sleep = None

\* after discovery under the configuration whose hostname is a prefix of
\* idA: idB alone is tracked, with its one task fetching the metadata, and
\* idA has neither tracker nor task
C27_Witness ==
    /\ pc = "run"
    /\ SelfExcluded(config, idA)
    /\ DOMAIN containers = {idB}
    /\ containers[idB] = new_running
    /\ tasks = SetToBag({StartTask(idB, None)})
    /\ chan = << >>
    /\ \A id \in Ids : lastEv[id] = "none"

----------------------------------------------------------------------------
(* restart, under SpecTracker *)

(* C28: restart(tracker) spawns exactly one task and empties pending_info
   when pending_info is Some (nothing else of the tracker changes), and
   spawns nothing and changes nothing when pending_info is None; hence a
   second restart right after spawns nothing and changes nothing, and two
   restarts in a row spawn at most one task. *)
C28_RestartIdempotent ==
    call.op = "restart" =>
        LET pre == call.pre[1]
            post == call.post[1]
            spawned == call.ret[1]
            again == restart(post)
        IN  /\ pre.info # None =>
                /\ Len(spawned) = 1
                /\ spawned[1].id = pre.info[1].id /\ Streaming(spawned[1])
                /\ post = [info |-> None, running |-> pre.running,
                           generation |-> pre.generation]
            /\ pre.info = None => spawned = << >> /\ post = pre
            /\ again.spawned = << >> /\ again.state = post
            /\ Len(spawned) + Len(again.spawned) <= 1

\* restart was called on a stopped tracker that held an info at a later
\* generation: one task was spawned and the tracker holds no info
C28_Witness ==
    /\ call.op = "restart"
    /\ call.pre[1].info # None
    /\ ~call.pre[1].running /\ call.pre[1].generation >= 1
    /\ Len(call.ret[1]) = 1
    /\ \E id \in DOMAIN containers :
           containers[id] = call.post[1] /\ containers[id].info = None

----------------------------------------------------------------------------
(* Ownership of the tracker table, under Spec *)

\* a step of a stream task: a task moved on or ended, none was spawned
IsTaskStep == tasks' # tasks /\ BagCardinality(tasks') <= BagCardinality(tasks)

(* C29: no step of a stream task (backoff, metadata fetch, forwarding,
   sending its report) changes the tracker table or the Coordinator's
   position; the only thing such a step hands to the Coordinator is one
   message appended to the completion channel, and only when the task ends.
   The table changes only in steps of the live Coordinator: discovery,
   taking a report off the channel, or processing a lifecycle event. *)
C29_TableOwnership ==
    [][ /\ IsTaskStep =>
            /\ containers' = containers /\ pc' = pc
            /\ lastEv' = lastEv /\ eventsOpen' = eventsOpen
            /\ \/ chan' = chan
               \/ /\ BagCardinality(tasks') < BagCardinality(tasks)
                  /\ Len(chan') = Len(chan) + 1
                  /\ SubSeq(chan', 1, Len(chan)) = chan
                  /\ tasks (-) tasks' = SetToBag({t \in BagToSet(tasks) :
                                                    t.id = chan'[Len(chan')].id
                                                    /\ CopiesIn(t, tasks') < CopiesIn(t, tasks)})
        /\ containers' # containers =>
            /\ CoordinatorAlive
            /\ ~IsTaskStep
            /\ \/ pc = "discover" /\ chan' = chan
               \/ pc = "run" /\ chan # << >> /\ chan' = Tail(chan)
               \/ pc = "run" /\ chan' = chan
      ]_vars

\* the task of idA has gone through its steps and sent its report, which
\* waits in the channel: the tracker of idA is as discovery created it
C29_Witness ==
    /\ pc = "run"
    /\ idA \in DOMAIN containers
    /\ containers[idA] = new_running
    /\ lastEv[idA] = "none"
    /\ TaskCount(idA) = 0
    /\ \E i \in 1..Len(chan) : chan[i].id = idA /\ chan[i].kind = "Ok"

----------------------------------------------------------------------------
(* Shutdown and the stream tasks, under Spec *)

\* the step in which the task t forwards the batch it holds to the sink
ForwardStep(t) == chunk_in_hand(t) /\ ~sinkClosed /\ TaskApply(t, send_chunk(t, FALSE))

\* how far a task is from its end once the feed yields nothing more: a held
\* batch is sent (or refused) before the stream's end is seen
StepsLeft(t) ==
    IF t.pc = "backoff" THEN 5
    ELSE IF t.pc = "inspect" THEN 4
    ELSE IF t.pc = "sending" THEN 3
    ELSE IF t.pc = "flush" THEN 2
    ELSE 1

TotalStepsLeft(b) ==
    LET S == BagToSet(b)
        Weight[k \in 1..5] == k * SumCopies(b, {t \in S : StepsLeft(t) = k})
    IN  Weight[1] + Weight[2] + Weight[3] + Weight[4] + Weight[5]

(* C30 as stated: once the shutdown signal has resolved, no stream task
   forwards a further record to the sink. *)
C30_Original ==
    [][ shutdown => ~\E t \in BagToSet(tasks) : ForwardStep(t) ]_vars

(* C30: once the shutdown signal has resolved, a stream task takes no
   further payload from its feed; every step it takes brings it strictly
   closer to its end, so that it forwards at most the batch it already held
   and then ends; and when it ends while the Coordinator lives, its
   completion report is put on the channel. *)
C30_StopsAfterShutdown ==
    [][ shutdown =>
          /\ \A t \in BagToSet(tasks') :
                 t.pc = "sending" => CopiesIn(t, tasks') <= CopiesIn(t, tasks)
          /\ IsTaskStep =>
                 /\ TotalStepsLeft(tasks') < TotalStepsLeft(tasks)
                 /\ (BagCardinality(tasks') < BagCardinality(tasks) /\ CoordinatorAlive)
                        => Len(chan') = Len(chan) + 1
      ]_vars

\* after shutdown, with the Coordinator not yet dropped: every task has
\* ended and the Ok reports of both ids wait in the channel
C30_Witness ==
    /\ shutdown /\ pc = "run"
    /\ DOMAIN containers = Ids
    /\ tasks = EmptyBag
    /\ \A id \in Ids : \E i \in 1..Len(chan) : chan[i].id = id /\ chan[i].kind = "Ok"

----------------------------------------------------------------------------
(* Containment, under Spec *)

\* the outcome o of a Coordinator arm on the table touches the id x alone
\* and lets the loop go on
Contained(o, x) ==
    /\ o.panic = ""
    /\ DOMAIN o.containers \ {x} = DOMAIN containers \ {x}
    /\ \A id \in DOMAIN containers \ {x} : o.containers[id] = containers[id]
    /\ \A k \in 1..Len(o.spawned) : o.spawned[k].id = x

(* C31: processing a completion report or a well-formed lifecycle event for
   the id X leaves the tracker of every other id as it was, spawns no task
   of another id (a Coordinator arm ends no task at all) and leaves the
   Coordinator running. *)
C31_Containment ==
    pc = "run" =>
        /\ chan # << >> => Contained(OnReport(containers, Head(chan)), Head(chan).id)
        /\ \A x \in Ids : \A ev \in EventsFor(x, EventActions) :
               Contained(OnEvent(config, containers, ev), x)

\* idA was dropped by a Transient failure processed while it was stopped;
\* idB, started again meanwhile, is tracked with its task
C31_Witness ==
    /\ pc = "run"
    /\ lastEv[idA] = "dropped" /\ idA \notin DOMAIN containers
    /\ idB \in DOMAIN containers
    /\ containers[idB].running /\ containers[idB].generation = 1
    /\ TaskCount(idB) = 1

----------------------------------------------------------------------------
(* running(), under SpecTracker *)

(* C32: running() always sets running = true and adds exactly 1 to the
   generation, also when the tracker is already running, and leaves
   pending_info unchanged. *)
C32_RunningAlwaysBumps ==
    call.op = "running" =>
        call.post[1] = [info |-> call.pre[1].info, running |-> TRUE,
                        generation |-> call.pre[1].generation + 1]

\* running() was called on a tracker that was already running at generation
\* 1: it is now at generation 2
C32_Witness ==
    /\ call.op = "running"
    /\ call.pre[1].running /\ call.pre[1].generation = 1
    /\ \E id \in DOMAIN containers :
           containers[id] = call.post[1] /\ containers[id].generation = 2

----------------------------------------------------------------------------
(* Failure of the startup listing, under Spec *)

(* C33: if listing the running containers fails at startup, no tracker is
   created and no polling task is spawned, and the Coordinator loop never
   starts: from then on the table, the tasks and the completion channel stay
   empty and no lifecycle event or completion report is processed. *)
C33_ListingFailureFatal ==
    [][ /\ pc' = "failed" =>
              /\ containers' = << >>
              /\ tasks' = EmptyBag
              /\ chan' = << >>
              /\ eventsOpen'
              /\ \A id \in Ids : lastEv'[id] = "none"
        /\ pc = "failed" => pc' = "failed"
      ]_vars

\* the listing failed and, later, the shutdown signal fired and the sink
\* closed: nothing was ever tracked or spawned
C33_Witness ==
    /\ pc = "failed"
    /\ shutdown /\ sinkClosed
    /\ containers = << >> /\ tasks = EmptyBag /\ chan = << >>

----------------------------------------------------------------------------
(* The end of a task and the Coordinator, under Spec *)

(* C34: a stream task whose feed has ended terminates, also when the
   Coordinator is gone: its ending step is enabled whatever the Coordinator's
   state (sending the report never blocks), and with the Coordinator gone the
   report is dropped and the channel left as it was (the failed send is
   ignored). A task still holding a batch when the feed ended waits for the
   sink only. *)
C34_NoWaitForCoordinator ==
    \A t \in BagToSet(tasks) :
        /\ t.pc = "flush" =>
              /\ ENABLED TaskSend(t)
              /\ send_chunk(t, sinkClosed).report # None
        /\ (t.pc = "stream" /\ shutdown) =>
              /\ ENABLED TaskShutdown(t)
              /\ stream_end(t).report # None
        /\ (t.pc = "sending" /\ shutdown) => ENABLED TaskSend(t)
        /\ \A result \in EndReports(t) :
              /\ finish(chan, FALSE, result) = chan
              /\ finish(chan, TRUE, result) = Append(chan, result)

\* the Coordinator is gone and every task has ended after it: both trackers
\* were waiting for a report that no channel holds
C34_Witness ==
    /\ ~CoordinatorAlive
    /\ DOMAIN containers = Ids
    /\ tasks = EmptyBag
    /\ chan = << >>
    /\ \A id \in Ids : containers[id].info = None

----------------------------------------------------------------------------
(* Accounting of tasks, reports and stored infos, under Spec *)

\* what stands for the one ContainerMetricInfo of id: its active tasks, its
\* reports in the channel, and the info stored in the tracker cs[id]
Holders(cs, id) ==
    TaskCount(id) + ReportCount(id)
        + (IF id \in DOMAIN cs /\ cs[id].info # None THEN 1 ELSE 0)

(* C35 as stated: in every reachable state every id of the table has exactly
   one of task, report in the channel, stored info, and every other id has
   neither task nor report. *)
C35_Original ==
    \A id \in Ids :
        IF id \in DOMAIN containers
        THEN Holders(containers, id) = 1
        ELSE TaskCount(id) = 0 /\ ReportCount(id) = 0

(* C35: while the Coordinator lives (discovering or in its loop), for every
   tracked id the number of active tasks plus the number of reports in the
   channel plus 1 for a stored pending_info is exactly 1, and an untracked id
   has no active task and no report; once the Coordinator is gone, no id has
   more than one task or report left. *)
C35_Accounting ==
    IF CoordinatorAlive
    THEN \A id \in Ids :
             IF id \in DOMAIN containers
             THEN Holders(containers, id) = 1
             ELSE TaskCount(id) = 0 /\ ReportCount(id) = 0
    ELSE \A id \in Ids : TaskCount(id) + ReportCount(id) <= 1

\* the Coordinator runs: idA is stopped with its info stored, the report of
\* idB waits in the channel, and neither has a task
C35_Witness ==
    /\ pc = "run"
    /\ DOMAIN containers = Ids
    /\ containers[idA].info # None /\ ~containers[idA].running
    /\ containers[idB].info = None /\ ReportCount(idB) = 1
    /\ tasks = EmptyBag

----------------------------------------------------------------------------
(* Ordering of the generations, under Spec *)

\* the ContainerMetricInfos of id that exist: held by an active task, carried
\* by an Ok report in the channel, or stored in the tracker
InfosOf(id) ==
    {t.info[1] : t \in {u \in TasksOf(id) : Streaming(u)}}
        \cup {r.info[1] : r \in {q \in ReportsOf(id) : q.kind = "Ok"}}
        \cup (IF id \in DOMAIN containers /\ containers[id].info # None
              THEN {containers[id].info[1]} ELSE {})

(* C36: every ContainerMetricInfo held by an active task, carried by an Ok
   report in the channel or stored in pending_info has a generation less
   than or equal to the generation of the tracker in the table for its id,
   also after the tracker was removed and inserted anew at generation 0;
   while the Coordinator lives every such info belongs to a tracked id. *)
C36_GenerationOrdering ==
    \A id \in Ids : \A info \in InfosOf(id) :
        /\ info.id = id
        /\ id \in DOMAIN containers => info.generation <= containers[id].generation
        /\ CoordinatorAlive => id \in DOMAIN containers

\* idA, started by an event, failed transiently and was inserted anew: its
\* tracker is at generation 0 and its retry sleeps; idB streams with the info
\* of an earlier generation than its tracker's
C36_Witness ==
    /\ pc = "run"
    /\ DOMAIN containers = Ids
    /\ containers[idA].generation = 0 /\ lastEv[idA] = "up"
    /\ \E t \in TasksOf(idA) : t.pc = "backoff"
    /\ containers[idB].generation = 2
    /\ \E t \in TasksOf(idB) : Streaming(t) /\ t.info[1].generation < 2

----------------------------------------------------------------------------
(* Restarts of a stopped container, under Spec *)

\* the last start/unpause/die/pause event processed for id was die or pause
StoppedByEvent(id) == lastEv[id] \in {"down", "dropped"}

\* an Ok report of id that return_info will answer with a restart although
\* the tracker is stopped is still to come: an info older than the tracker's
\* generation exists, or a task that will create its info at generation 0
StaleHolder(id) ==
    /\ id \in DOMAIN containers
    /\ \/ \E info \in InfosOf(id) : info.generation < containers[id].generation
       \/ \E t \in TasksOf(id) : ~Streaming(t) /\ containers[id].generation > 0

(* C37: once a die/pause event was processed for an id and as long as no
   start/unpause event for it is processed, the Coordinator spawns at most
   one more task for the id: a task is spawned only by the Ok report of a
   stale generation, after that spawn nothing stale is left, and nothing
   stale ever appears again; when neither task nor report of the id is left,
   the tracker holds its pending_info, stopped, or the id is dropped. *)
C37_BoundedRestart ==
    [][ \A id \in Ids :
          (pc = "run" /\ StoppedByEvent(id) /\ StoppedByEvent(id)') =>
              /\ TaskCount(id)' > TaskCount(id) =>
                    /\ StaleHolder(id) /\ ~StaleHolder(id)'
                    /\ chan # << >> /\ chan' = Tail(chan)
                    /\ Head(chan).kind = "Ok" /\ Head(chan).id = id
                    /\ Head(chan).info[1].generation < containers[id].generation
                    /\ TaskCount(id)' = 1
              /\ ~StaleHolder(id) => ~StaleHolder(id)'
              /\ (pc' = "run" /\ TaskCount(id)' = 0 /\ ReportCount(id)' = 0) =>
                    \/ id \notin DOMAIN containers'
                    \/ /\ containers'[id].info # None
                       /\ ~containers'[id].running
                       /\ ~StaleHolder(id)'
      ]_vars

\* idA, stopped at generation 1, holds the info of generation 1 handed back
\* by the one task restarted after the stop; it has neither task nor report
C37_Witness ==
    /\ pc = "run"
    /\ lastEv[idA] = "down"
    /\ idA \in DOMAIN containers
    /\ ~containers[idA].running /\ containers[idA].generation = 1
    /\ containers[idA].info # None
    /\ containers[idA].info[1].generation = 1
    /\ TaskCount(idA) = 0 /\ ReportCount(idA) = 0

----------------------------------------------------------------------------
(* The completion channel, under Spec *)

(* C38: while the Coordinator runs the completion channel is never closed:
   the Coordinator's own sender is counted beside one per live task, so
   there is a sender whatever the number of live tasks, zero included, and
   receiving from the empty channel waits; the loop is never left through
   the 'channel closed' arm, only through the end of the event stream. *)
C38_ChannelNeverClosed ==
    /\ CoordinatorAlive =>
          /\ SenderCount = BagCardinality(tasks) + 1
          /\ ~ENABLED (chan = << >> /\ RecvReport)
    /\ pc = "done" => ~eventsOpen

\* the loop runs with no live task and an empty channel: both trackers hold
\* their info and the only sender is the Coordinator's
C38_Witness ==
    /\ pc = "run"
    /\ tasks = EmptyBag /\ chan = << >>
    /\ DOMAIN containers = Ids
    /\ \A id \in Ids : containers[id].info # None
    /\ SenderCount = 1

----------------------------------------------------------------------------
(* The filters and the table, under Spec *)

\* id is not self-excluded and passes the Filter Policy on names with which
\* it can be presented: its listed name, the name attribute of an event, or
\* no name at all
PassesFilters(cfg, id) ==
    /\ ~SelfExcluded(cfg, id)
    /\ \/ FilterPolicy(cfg, id, <<ContainerName(id)>>)
       \/ FilterPolicy(cfg, id, << >>)

(* C39: in every reachable state every id of the tracker table, and every id
   that has a task or a report, is not self-excluded and passes the
   include/exclude Filter Policy; and processing a completion report tracks
   no id that was not tracked and spawns a task only for an id it keeps
   tracked, so the retry after a Transient failure cannot bring in a
   filtered-out container. *)
C39_FilterInvariant ==
    /\ \A id \in Ids :
          (id \in DOMAIN containers \/ TaskCount(id) > 0 \/ ReportCount(id) > 0)
              => PassesFilters(config, id)
    /\ (pc = "run" /\ chan # << >>) =>
          LET o == OnReport(containers, Head(chan))
          IN  /\ DOMAIN o.containers \subseteq DOMAIN containers
              /\ \A k \in 1..Len(o.spawned) :
                     /\ o.spawned[k].id \in DOMAIN containers
                     /\ o.spawned[k].id \in DOMAIN o.containers

\* the hostname is a prefix of idA: idB was inserted anew after a Transient
\* failure and its retry sleeps, while idA, for which a start event was
\* processed, has neither tracker nor task
C39_Witness ==
    /\ pc = "run"
    /\ SelfExcluded(config, idA)
    /\ lastEv[idA] = "up"
    /\ DOMAIN containers = {idB}
    /\ TaskCount(idA) = 0 /\ ReportCount(idA) = 0
    /\ \E t \in TasksOf(idB) : t.pc = "backoff"

----------------------------------------------------------------------------
(* The report of a task ended by shutdown, under Spec *)

\* the report with which the task t ends when take_until(shutdown) ends its
\* stream and the sink, still open, takes the batch t may hold
ShutdownReport(t) ==
    LET o == stream_end(t)
    IN  IF o.report # None THEN o.report[1]
        ELSE send_chunk(o.next[1], FALSE).report[1]

(* C40: a task whose feed is ended by the shutdown signal, with no feed error
   and no sink failure, reports Ok(info), as after a clean end of the feed;
   the Coordinator's loop does not look at the signal, so when it processes
   that report while the tracker is running, return_info returns true and
   one new task is spawned for the id, with the tracker's generation. *)
C40_ShutdownReportsOk ==
    (shutdown /\ pc = "run") =>
        \A t \in BagToSet(tasks) :
            (t.pc \in {"stream", "sending"} /\ t.error = None) =>
                LET rep == ShutdownReport(t)
                    o == OnReport(containers, rep)
                IN  /\ rep = OkReport(t.info[1])
                    /\ (t.id \in DOMAIN containers /\ containers[t.id].running) =>
                          /\ o.panic = "" /\ o.ret = Some(TRUE)
                          /\ o.spawned =
                                 <<StreamTask(WithGeneration(t.info[1],
                                                  containers[t.id].generation))>>
                          /\ o.containers = containers

\* the signal has fired and the Coordinator, not yet dropped, finds at the
\* head of the channel the Ok report of the ended task of idA, whose tracker
\* is running
C40_Witness ==
    /\ shutdown /\ pc = "run"
    /\ chan # << >> /\ Head(chan).kind = "Ok" /\ Head(chan).id = idA
    /\ idA \in DOMAIN containers /\ containers[idA].running
    /\ TaskCount(idA) = 0

====
